---- MODULE Spec2Model ----
(***************************************************************************)
(* A model of src/kicad_agent.py: the tree search find_all, the extraction *)
(* parse_kicad_schematic, its wrapper parse_kicad_schematic_tool and the   *)
(* /chat request handler.                                                  *)
(*                                                                         *)
(* A value produced by sexpdata.loads is a node record [t, v, c]:          *)
(*   t = "sym"  a sexpdata.Symbol whose name is v                          *)
(*   t = "str"  a Python str v (a quoted string of the document)           *)
(*   t = "list" a Python list whose items are c                            *)
(*   t = "none" Python's None (never part of a tree)                       *)
(* A list object is identified by its path: the sequence of child indices  *)
(* (1-based) that leads to it from the root.  find_all returns the list    *)
(* objects themselves; the model returns their paths.                      *)
(***************************************************************************)
EXTENDS Integers, Sequences, FiniteSets, TLC

VARIABLES
    file,        \* what open(file_path) and sexpdata.loads will find
    s_expr,      \* the tree handed to find_all / parse_kicad_schematic
    pc,          \* position inside parse_kicad_schematic_tool / the find_all call
    exc,         \* the exception in flight or last raised, "none" when none
    title,       \* parse_kicad_schematic's local title
    comp_blocks, \* the list the component loop iterates over (paths)
    components,  \* parse_kicad_schematic's local components
    net_blocks,  \* the list the net loop iterates over (paths)
    nets,        \* parse_kicad_schematic's local nets
    loop_i,      \* how many blocks the running for loop has taken
    result,      \* the value parse_kicad_schematic_tool returned
    fsym,        \* the symbol name of the last find_all call
    found,       \* what that call returned
    chat         \* the state of one /chat request

coreVars == <<file, s_expr, pc, exc, title, comp_blocks, components,
              net_blocks, nets, loop_i, result>>
findVars == <<fsym, found>>
vars == <<file, s_expr, pc, exc, title, comp_blocks, components,
          net_blocks, nets, loop_i, result, fsym, found, chat>>

(***************************************************************************)
(* Bounds.                                                                 *)
(***************************************************************************)
MaxWidth == 2      \* children per list in the generic trees of SpecFind
MaxBlocks == 3     \* top-level blocks of a document
MaxFields == 2     \* field children of a block
MaxToolCalls == 2  \* tool calls in the model's first response

(***************************************************************************)
(* Nodes.                                                                  *)
(***************************************************************************)
Sym(n) == [t |-> "sym", v |-> n, c |-> <<>>]
Str(s) == [t |-> "str", v |-> s, c |-> <<>>]
Lst(cs) == [t |-> "list", v |-> "", c |-> cs]
None == [t |-> "none", v |-> "", c |-> <<>>]

\* isinstance(x, list)
IsList(x) == x.t = "list"

\* x == sexpdata.Symbol(name): true only of a Symbol with that name
EqSymbol(x, name) == x.t = "sym" /\ x.v = name

\* x == "text": true only of a str with that text
EqStr(x, text) == x.t = "str" /\ x.v = text

\* sequences of length 0..n over S
SeqUpTo(S, n) == UNION {[1..k -> S] : k \in 0..n}

RECURSIVE NodeAt(_, _)
\* the node a path leads to
NodeAt(node, path) ==
    IF path = <<>> THEN node
    ELSE NodeAt(node.c[Head(path)], Tail(path))

(***************************************************************************)
(* find_all, lines 17-25.                                                  *)
(***************************************************************************)
\* line 21: s_expr and isinstance(s_expr[0], Symbol) and s_expr[0].value() == symbol
HeadMatches(symbol, node) ==
    Len(node.c) > 0 /\ node.c[1].t = "sym" /\ node.c[1].v = symbol

RECURSIVE find_all_at(_, _, _)
RECURSIVE find_all_items(_, _, _, _)

\* lines 23-24: for item in s_expr: found.extend(find_all(symbol, item))
find_all_items(symbol, node, path, i) ==
    IF i > Len(node.c) THEN <<>>
    ELSE find_all_at(symbol, node.c[i], Append(path, i))
         \o find_all_items(symbol, node, path, i + 1)

\* a mutant: the search stops at a matched list instead of descending into it
find_all_at_shallow(symbol, node, path) ==
    IF ~IsList(node) THEN <<>>
    ELSE IF HeadMatches(symbol, node) THEN <<path>>
    ELSE find_all_items(symbol, node, path, 1)

\* find_all on the node at `path`
find_all_at(symbol, node, path) ==
    IF ~IsList(node) THEN <<>>
    ELSE (IF HeadMatches(symbol, node) THEN <<path>> ELSE <<>>)
         \o find_all_items(symbol, node, path, 1)

find_all(symbol, tree) == find_all_at(symbol, tree, <<>>)

(***************************************************************************)
(* The trees of SpecFind: every tree of depth at most 2 over two Symbols    *)
(* with at most MaxWidth children per list, each of them once more below a *)
(* list headed by net (depth 3), and lists whose head is the string "net"  *)
(* instead of the Symbol.                                                  *)
(***************************************************************************)
FindAtoms == {Sym("net"), Sym("x")}
FindLists1 == {Lst(cs) : cs \in SeqUpTo(FindAtoms, MaxWidth)}
FindLists2 == {Lst(cs) : cs \in SeqUpTo(FindAtoms \cup FindLists1, MaxWidth)}
FindLists3 == {Lst(<<Sym("net"), Sym("x"), n>>) : n \in FindLists2}
FindQuoted == {Str("net")} \cup {Lst(<<Str("net"), n>>) : n \in FindLists1}
FindTrees == FindAtoms \cup FindLists2 \cup FindLists3 \cup FindQuoted

\* the symbol names find_all is called with in SpecFind
FindNames == {"net", "x"}

(***************************************************************************)
(* Positions of a tree, and document order on them.                        *)
(***************************************************************************)
RECURSIVE Paths(_)
\* every path of a tree, the root's (the empty path) included
Paths(node) ==
    {<<>>} \cup
    (IF IsList(node)
     THEN UNION {{<<i>> \o p : p \in Paths(node.c[i])} : i \in 1..Len(node.c)}
     ELSE {})

\* p is a proper prefix of q: the node at q lies inside the node at p
IsProperPrefix(p, q) ==
    Len(p) < Len(q) /\ \A k \in 1..Len(p) : p[k] = q[k]

\* the node at p starts before the node at q in the document (preorder)
StartsBefore(p, q) ==
    \/ IsProperPrefix(p, q)
    \/ \E k \in 1..Len(p) :
          /\ k <= Len(q)
          /\ p[k] < q[k]
          /\ \A j \in 1..(k - 1) : p[j] = q[j]

\* the lists of a tree whose first child is the Symbol `name`
HeadedBy(tree, name) ==
    {p \in Paths(tree) :
        LET n == NodeAt(tree, p)
        IN n.t = "list" /\ n.c # <<>> /\ n.c[1] = Sym(name)}

\* the elements of a sequence
Range(s) == {s[i] : i \in 1..Len(s)}

\* a sequence of paths is strictly in document order
InDocumentOrder(s) ==
    \A i, j \in 1..Len(s) : i < j => StartsBefore(s[i], s[j])

(***************************************************************************)
(* parse_kicad_schematic, lines 27-78.                                     *)
(***************************************************************************)
\* lines 34, 47, 65, 67: isinstance(sub, list) and sub and sub[0] == Symbol(name)
\* (line 34 and 46-47 test isinstance first; 65 and 67 test it on line 64)
IsHeaded(sub, name) ==
    IsList(sub) /\ Len(sub.c) > 0 /\ EqSymbol(sub.c[1], name)

RECURSIVE first_title_item(_, _)
\* lines 33-34: the index of the first item of the title block that is a list
\* headed by title; 0 when the loop ends without one
first_title_item(block, i) ==
    IF i > Len(block.c) THEN 0
    ELSE IF IsHeaded(block.c[i], "title") THEN i
    ELSE first_title_item(block, i + 1)

\* lines 30-36: [raised, title]; item[1] raises IndexError on a one-element list
find_title(tree) ==
    LET title_blocks == find_all("title_block", tree)
    IN IF title_blocks = <<>> THEN [raised |-> FALSE, title |-> None]
       ELSE LET block == NodeAt(tree, title_blocks[1])
                i == first_title_item(block, 1)
            IN IF i = 0 THEN [raised |-> FALSE, title |-> None]
               ELSE IF Len(block.c[i].c) < 2
                    THEN [raised |-> TRUE, title |-> None]
                    ELSE [raised |-> FALSE, title |-> block.c[i].c[2]]

\* a mutant: the comp blocks are listed before the symbol blocks
component_blocks_comp_first(tree) ==
    find_all("comp", tree) \o find_all("symbol", tree)

\* line 43: find_all('symbol', s_expr) + find_all('comp', s_expr)
component_blocks(tree) ==
    find_all("symbol", tree) \o find_all("comp", tree)

\* a text without its capitals, for the three property keys
Lower(text) ==
    CASE text = "Reference" -> "reference"
      [] text = "Value" -> "value"
      [] text = "Footprint" -> "footprint"
      [] OTHER -> text

\* a mutant: the key is compared without regard to case
property_key_is_nocase(sub, key) ==
    Len(sub.c) > 2 /\ (EqStr(sub.c[2], key) \/ EqStr(sub.c[2], Lower(key)))

\* lines 48, 50, 52: len(sub) > 2 and sub[1] == key
property_key_is(sub, key) ==
    Len(sub.c) > 2 /\ EqStr(sub.c[2], key)

\* lines 46-53: one item of a component block applied to the fields so far
component_item(sub, acc) ==
    IF IsHeaded(sub, "property")
    THEN IF property_key_is(sub, "Reference") THEN [acc EXCEPT !.ref = sub.c[3]]
         ELSE IF property_key_is(sub, "Value") THEN [acc EXCEPT !.value = sub.c[3]]
         ELSE IF property_key_is(sub, "Footprint")
              THEN [acc EXCEPT !.footprint = sub.c[3]]
         ELSE acc
    ELSE acc

RECURSIVE component_scan(_, _, _)
\* line 45: for sub in comp
component_scan(comp, i, acc) ==
    IF i > Len(comp.c) THEN acc
    ELSE component_scan(comp, i + 1, component_item(comp.c[i], acc))

\* lines 44-58: the record built from one component block
component_record(comp) ==
    component_scan(comp, 1, [ref |-> None, value |-> None, footprint |-> None])

\* a mutant: a block whose fields are all absent is not recorded
append_component_nonempty(list, rec) ==
    IF rec.ref = None /\ rec.value = None /\ rec.footprint = None
    THEN list ELSE Append(list, rec)

\* line 54: components.append({...})
append_component(list, rec) == Append(list, rec)

RECURSIVE net_scan(_, _, _)
\* lines 63-68: [raised, code, name]; sub[1] raises IndexError on a one-element
\* list headed by code or name, and the loop ends there
net_scan(net, i, acc) ==
    IF i > Len(net.c) THEN acc
    ELSE LET sub == net.c[i]
         IN IF IsHeaded(sub, "code")
            THEN IF Len(sub.c) < 2 THEN [acc EXCEPT !.raised = TRUE]
                 ELSE net_scan(net, i + 1, [acc EXCEPT !.code = sub.c[2]])
            ELSE IF IsHeaded(sub, "name")
            THEN IF Len(sub.c) < 2 THEN [acc EXCEPT !.raised = TRUE]
                 ELSE net_scan(net, i + 1, [acc EXCEPT !.name = sub.c[2]])
            ELSE net_scan(net, i + 1, acc)

\* lines 62-72: what one net block gives
net_fields(net) ==
    net_scan(net, 1, [raised |-> FALSE, code |-> None, name |-> None])

(***************************************************************************)
(* The documents of Spec: what sexpdata.loads gives for a well-formed      *)
(* file.  Four families, each exhaustive within its bound.                 *)
(***************************************************************************)
\* (head v1 v2 ...)
Fld(head, vals) == Lst(<<Sym(head)>> \o vals)
\* (property "key" "value")
Prop(key, val) == Fld("property", <<Str(key), Str(val)>>)

\* the children a component block is given
CompFields ==
    { Prop("Reference", "R1"), Prop("Reference", "R2"), Prop("reference", "R9"),
      Prop("Value", "10k"), Prop("Footprint", "0603"),
      Fld("property", <<Str("Reference")>>),
      Fld("ref", <<Str("C1")>>), Str("stray") }

\* the children a net block is given
NetFields ==
    { Fld("code", <<Str("1")>>), Fld("code", <<>>),
      Fld("name", <<Str("GND")>>), Fld("name", <<>>),
      Fld("node", <<Fld("ref", <<Str("R1")>>), Fld("pin", <<Str("1")>>)>>),
      Fld("node", <<Fld("ref", <<Str("R1")>>)>>) }

\* the children a title block is given
TitleFields ==
    { Fld("title", <<Str("Power Supply")>>), Fld("title", <<Str("Other")>>),
      Fld("title", <<>>), Fld("date", <<Str("2024")>>) }

\* a component block as the whole document
CompDocs ==
    {Fld(h, fs) : h \in {"symbol", "comp"}, fs \in SeqUpTo(CompFields, MaxFields)}

\* a net block as the whole document
NetDocs == {Fld("net", fs) : fs \in SeqUpTo(NetFields, MaxFields)}

\* a document with one title block
TitleDocs ==
    {Fld("kicad_sch", <<Fld("title_block", fs)>>) :
        fs \in SeqUpTo(TitleFields, MaxFields)}

\* the blocks of the documents with several blocks: flat, nested in a block of
\* the same or of the other kind, and below a list that is no block
Blocks ==
    { Fld("symbol", <<Prop("Reference", "R1")>>),
      Fld("symbol", <<>>),
      Fld("comp", <<Prop("Reference", "R1")>>),
      Fld("comp", <<Fld("ref", <<Str("C1")>>)>>),
      Fld("comp", <<Fld("symbol", <<Prop("Value", "10k")>>)>>),
      Fld("symbol", <<Prop("Reference", "R1"), Fld("symbol", <<>>)>>),
      Fld("sheet", <<Fld("comp", <<>>), Fld("net", <<Fld("name", <<Str("VCC")>>)>>)>>),
      Fld("net", <<Fld("code", <<Str("1")>>)>>),
      Fld("net", <<Fld("name", <<Str("GND")>>), Fld("net", <<>>)>>),
      Fld("net", <<Fld("name", <<>>)>>),
      Fld("title_block", <<Fld("title", <<Str("Power Supply")>>)>>) }

\* documents of up to MaxBlocks blocks
BlockDocs == {Fld("kicad_sch", bs) : bs \in SeqUpTo(Blocks, MaxBlocks)}

\* the documents the specification's examples name: (), the full example, the
\* comp block with ref, value and footprint, and a net whose node has no pin
ExampleDocs ==
    { Lst(<<>>),
      Fld("kicad_sch",
          << Fld("title_block", <<Fld("title", <<Str("Power Supply")>>)>>),
             Fld("symbol", <<Prop("Reference", "R1"), Prop("Value", "10k")>>),
             Fld("net", << Fld("code", <<Str("1")>>), Fld("name", <<Str("GND")>>),
                           Fld("node", <<Fld("ref", <<Str("R1")>>),
                                         Fld("pin", <<Str("1")>>)>>) >>) >>),
      Fld("comp", << Fld("ref", <<Str("C1")>>), Fld("value", <<Str("100nF")>>),
                     Fld("footprint", <<Str("0603")>>) >>),
      Fld("net", << Fld("name", <<Str("GND")>>),
                    Fld("node", <<Fld("ref", <<Str("R1")>>)>>) >>),
      Sym("kicad_sch") }

Docs == CompDocs \cup NetDocs \cup TitleDocs \cup BlockDocs \cup ExampleDocs

\* what the file at file_path holds: nothing (no such file), a text sexpdata
\* rejects, or a text sexpdata reads as a tree
Files ==
    {[kind |-> "missing", tree |-> None], [kind |-> "malformed", tree |-> None]}
    \cup {[kind |-> "text", tree |-> d] : d \in Docs}

(***************************************************************************)
(* parse_kicad_schematic_tool, lines 116-128, in steps.                    *)
(***************************************************************************)
\* str(e) of line 128
ErrorText(e) ==
    CASE e = "FileNotFoundError" -> "No such file or directory"
      [] e = "ParseError" -> "Not enough closing brackets"
      [] e = "IndexError" -> "list index out of range"
      [] OTHER -> ""

\* a mutant: only the failures of reading and parsing the file are caught
CaughtReadOnly(e) == e \in {"FileNotFoundError", "ParseError"}

\* line 126: except Exception
Caught(e) == TRUE

NoResult == [pending |-> TRUE]

\* the chat request is not part of Spec and SpecFind
ChatIdle == [pc |-> "idle"]

Init ==
    /\ file \in Files
    /\ s_expr = None
    /\ pc = "start"
    /\ exc = "none"
    /\ title = None
    /\ comp_blocks = <<>>
    /\ components = <<>>
    /\ net_blocks = <<>>
    /\ nets = <<>>
    /\ loop_i = 0
    /\ result = NoResult
    /\ fsym = ""
    /\ found = <<>>
    /\ chat = ChatIdle

\* lines 119-121: open, read, sexpdata.loads
ReadFile ==
    /\ pc = "start"
    /\ IF file.kind = "missing"
       THEN exc' = "FileNotFoundError" /\ pc' = "except" /\ s_expr' = s_expr
       ELSE IF file.kind = "malformed"
       THEN exc' = "ParseError" /\ pc' = "except" /\ s_expr' = s_expr
       ELSE exc' = exc /\ pc' = "title" /\ s_expr' = file.tree
    /\ UNCHANGED <<file, title, comp_blocks, components, net_blocks, nets, loop_i,
                   result, fsym, found, chat>>

\* lines 30-43: the title, then the two empty lists and the component blocks
FindTitle ==
    /\ pc = "title"
    /\ LET t == find_title(s_expr)
       IN IF t.raised
          THEN /\ exc' = "IndexError" /\ pc' = "except"
               /\ UNCHANGED <<title, comp_blocks>>
          ELSE /\ title' = t.title
               /\ comp_blocks' = component_blocks(s_expr)
               /\ pc' = "components"
               /\ exc' = exc
    /\ UNCHANGED <<file, s_expr, components, net_blocks, nets, loop_i, result,
                   fsym, found, chat>>

\* lines 44-58: one turn of the component loop
ComponentStep ==
    /\ pc = "components"
    /\ loop_i < Len(comp_blocks)
    /\ LET comp == NodeAt(s_expr, comp_blocks[loop_i + 1])
       IN components' = append_component(components, component_record(comp))
    /\ loop_i' = loop_i + 1
    /\ UNCHANGED <<file, s_expr, pc, exc, title, comp_blocks, net_blocks, nets,
                   result, fsym, found, chat>>

\* line 61: the component loop is over; find_all('net', s_expr)
BeginNets ==
    /\ pc = "components"
    /\ loop_i = Len(comp_blocks)
    /\ net_blocks' = find_all("net", s_expr)
    /\ loop_i' = 0
    /\ pc' = "nets"
    /\ UNCHANGED <<file, s_expr, exc, title, comp_blocks, components, nets,
                   result, fsym, found, chat>>

\* lines 62-72: one turn of the net loop
NetStep ==
    /\ pc = "nets"
    /\ loop_i < Len(net_blocks)
    /\ LET n == net_fields(NodeAt(s_expr, net_blocks[loop_i + 1]))
       IN IF n.raised
          THEN exc' = "IndexError" /\ pc' = "except" /\ UNCHANGED <<nets, loop_i>>
          ELSE /\ nets' = Append(nets, [code |-> n.code, name |-> n.name])
               /\ loop_i' = loop_i + 1
               /\ UNCHANGED <<pc, exc>>
    /\ UNCHANGED <<file, s_expr, title, comp_blocks, components, net_blocks,
                   result, fsym, found, chat>>

\* lines 74-78 and 123-125: the record is returned by both functions
Return ==
    /\ pc = "nets"
    /\ loop_i = Len(net_blocks)
    /\ result' = [title |-> title, components |-> components, nets |-> nets]
    /\ pc' = "returned"
    /\ UNCHANGED <<file, s_expr, exc, title, comp_blocks, components, net_blocks,
                   nets, loop_i, fsym, found, chat>>

\* lines 126-128: the handler of the try
Except ==
    /\ pc = "except"
    /\ IF Caught(exc)
       THEN result' = [error |-> ErrorText(exc)] /\ pc' = "returned"
       ELSE result' = result /\ pc' = "propagated"
    /\ UNCHANGED <<file, s_expr, exc, title, comp_blocks, components, net_blocks,
                   nets, loop_i, fsym, found, chat>>

Next ==
    \/ ReadFile
    \/ FindTitle
    \/ ComponentStep
    \/ BeginNets
    \/ NetStep
    \/ Return
    \/ Except

Spec == Init /\ [][Next]_vars

(***************************************************************************)
(* What the claims speak of, stated on the tree alone.                     *)
(***************************************************************************)
\* parse_kicad_schematic returned its record (and the tool returned it too)
Extracted == pc = "returned" /\ exc = "none"

\* the component loop has run to its end
ComponentsBuilt == pc = "nets" \/ Extracted

\* the head symbol's name of the block at a path
HeadName(tree, p) == NodeAt(tree, p).c[1].v

\* the largest element of a non-empty set of numbers
Max(S) == CHOOSE m \in S : \A n \in S : n <= m

\* the children of a block that are lists headed by the Symbol `name` and
\* have at least `size` elements
ChildLists(block, name, size) ==
    {i \in 1..Len(block.c) :
        /\ block.c[i].t = "list"
        /\ Len(block.c[i].c) >= size
        /\ block.c[i].c[1] = Sym(name)}

\* the property children of a block that carry a key and a value, the key
\* being the string `key`
Properties(block, key) ==
    {i \in ChildLists(block, "property", 3) : block.c[i].c[2] = Str(key)}

\* the value the last property with that key gives, None without one
LastProperty(block, key) ==
    IF Properties(block, key) = {} THEN None
    ELSE block.c[Max(Properties(block, key))].c[3]

\* the second element of the last child list headed by `name`, None without one
LastField(block, name) ==
    IF ChildLists(block, name, 2) = {} THEN None
    ELSE block.c[Max(ChildLists(block, name, 2))].c[2]

AbsentComponent == [ref |-> None, value |-> None, footprint |-> None]

(***************************************************************************)
(* C2                                                                      *)
(***************************************************************************)
\* components[k] is built from comp_blocks[k] and nets[k] from net_blocks[k]
BuiltInListOrder ==
    /\ Len(result.components) = Len(comp_blocks)
    /\ Len(result.nets) = Len(net_blocks)
    /\ \A k \in 1..Len(comp_blocks) :
          result.components[k] = component_record(NodeAt(s_expr, comp_blocks[k]))
    /\ \A k \in 1..Len(net_blocks) :
          LET n == net_fields(NodeAt(s_expr, net_blocks[k]))
          IN result.nets[k] = [code |-> n.code, name |-> n.name]

\* C2 as claimed: in the returned record, of any two component blocks (headed
\* by symbol or by comp, in any mix) the one that starts earlier in the
\* document comes earlier in components, and likewise for nets.
C2_DocumentOrderAnyMix ==
    Extracted =>
        /\ BuiltInListOrder
        /\ InDocumentOrder(comp_blocks)
        /\ InDocumentOrder(net_blocks)

\* C2 as amended: components holds the blocks headed by symbol in document
\* order and after them the blocks headed by comp in document order; nets
\* holds the net blocks in document order.
C2_OrderWithinHead ==
    Extracted =>
        /\ BuiltInListOrder
        /\ \A i, j \in 1..Len(comp_blocks) :
              /\ (i < j /\ HeadName(s_expr, comp_blocks[i]) = HeadName(s_expr, comp_blocks[j]))
                    => StartsBefore(comp_blocks[i], comp_blocks[j])
              /\ (HeadName(s_expr, comp_blocks[i]) = "symbol"
                    /\ HeadName(s_expr, comp_blocks[j]) = "comp") => i < j
        /\ InDocumentOrder(net_blocks)

\* a record was returned in which a symbol block comes before a comp block
\* that starts earlier in the document, with two symbol blocks and two nets
C2_Witness ==
    /\ Extracted
    /\ Len(result.nets) >= 2
    /\ \E i, j \in 1..Len(comp_blocks) :
          /\ i < j
          /\ HeadName(s_expr, comp_blocks[i]) = "symbol"
          /\ HeadName(s_expr, comp_blocks[j]) = "comp"
          /\ StartsBefore(comp_blocks[j], comp_blocks[i])
    /\ \E i, j \in 1..Len(comp_blocks) :
          /\ i < j
          /\ HeadName(s_expr, comp_blocks[i]) = "symbol"
          /\ HeadName(s_expr, comp_blocks[j]) = "symbol"

(***************************************************************************)
(* C3                                                                      *)
(***************************************************************************)
\* C3: every list headed by symbol or by comp, at any depth, gives exactly
\* one component record and every list headed by net exactly one net record;
\* a block with no recognized field gives a record with every field absent.
C3_NoBlockDropped ==
    /\ ComponentsBuilt =>
          /\ Len(components) = Cardinality(HeadedBy(s_expr, "symbol"))
                               + Cardinality(HeadedBy(s_expr, "comp"))
          /\ Range(comp_blocks) = HeadedBy(s_expr, "symbol") \cup HeadedBy(s_expr, "comp")
          /\ \A k \in 1..Len(comp_blocks) :
                LET block == NodeAt(s_expr, comp_blocks[k])
                IN (\A key \in {"Reference", "Value", "Footprint"} :
                        Properties(block, key) = {})
                   => components[k] = AbsentComponent
    /\ Extracted =>
          /\ result.components = components
          /\ Len(result.nets) = Cardinality(HeadedBy(s_expr, "net"))
          /\ Range(net_blocks) = HeadedBy(s_expr, "net")
          /\ \A k \in 1..Len(net_blocks) :
                LET block == NodeAt(s_expr, net_blocks[k])
                IN (ChildLists(block, "code", 1) = {} /\ ChildLists(block, "name", 1) = {})
                   => result.nets[k] = [code |-> None, name |-> None]

\* a record was returned with two components of the same reference and one
\* component and one net with every field absent
C3_Witness ==
    /\ Extracted
    /\ \E i, j \in 1..Len(result.components) :
          /\ i # j
          /\ result.components[i].ref # None
          /\ result.components[i].ref = result.components[j].ref
    /\ \E k \in 1..Len(result.components) : result.components[k] = AbsentComponent
    /\ \E k \in 1..Len(result.nets) : result.nets[k] = [code |-> None, name |-> None]

(***************************************************************************)
(* C4                                                                      *)
(***************************************************************************)
\* C4: for every tree the Reader gives, extraction raises nothing and returns
\* a record; a title, code or name list without its value leaves the field
\* absent; the empty list gives title null and no components and no nets.
C4_NeverRaisesOnATree ==
    /\ file.kind = "text" => exc = "none"
    /\ (Extracted /\ s_expr = Lst(<<>>)) =>
          result = [title |-> None, components |-> <<>>, nets |-> <<>>]

(***************************************************************************)
(* C5                                                                      *)
(***************************************************************************)
\* C5: a comp block without property children gets its reference, value and
\* footprint from the second element of its child lists headed by ref, value
\* and footprint.
C5_VariantB ==
    ComponentsBuilt =>
        \A k \in 1..Len(comp_blocks) :
            LET block == NodeAt(s_expr, comp_blocks[k])
            IN (HeadName(s_expr, comp_blocks[k]) = "comp"
                  /\ ChildLists(block, "property", 1) = {})
               => /\ components[k].ref = LastField(block, "ref")
                  /\ components[k].value = LastField(block, "value")
                  /\ components[k].footprint = LastField(block, "footprint")

(***************************************************************************)
(* C6                                                                      *)
(***************************************************************************)
\* the node children of a net block that have both a ref and a pin child list
CompleteNodes(block) ==
    {i \in ChildLists(block, "node", 1) :
        /\ ChildLists(block.c[i], "ref", 2) # {}
        /\ ChildLists(block.c[i], "pin", 2) # {}}

\* C6: every net record carries a connections sequence with one connection
\* for each node child that has both a ref and a pin, and none for the others.
C6_Connections ==
    Extracted =>
        \A k \in 1..Len(result.nets) :
            /\ "connections" \in DOMAIN result.nets[k]
            /\ Len(result.nets[k].connections)
                  = Cardinality(CompleteNodes(NodeAt(s_expr, net_blocks[k])))

(***************************************************************************)
(* C7                                                                      *)
(***************************************************************************)
\* x is a sequence
IsSequence(x) == DOMAIN x = 1..Len(x)

\* C7: the tool returns for every file, and what it returns is either a value
\* whose only key is error, with a text, when reading, parsing or extracting
\* failed, or a value with exactly title, components and nets, the last two
\* sequences, when nothing failed.
C7_TwoShapes ==
    /\ pc # "propagated"
    /\ pc = "returned" =>
          IF file.kind = "text" /\ exc = "none"
          THEN /\ DOMAIN result = {"title", "components", "nets"}
               /\ IsSequence(result.components)
               /\ IsSequence(result.nets)
          ELSE /\ DOMAIN result = {"error"}
               /\ result.error # ""

\* the tool returned the error shape after extraction raised on a tree
C7_Witness ==
    /\ pc = "returned"
    /\ file.kind = "text"
    /\ exc = "IndexError"
    /\ DOMAIN result = {"error"}

(***************************************************************************)
(* C8                                                                      *)
(***************************************************************************)
\* C8: a component's reference, value and footprint are the third element of
\* the last property child with a key and a value whose key is exactly
\* "Reference", "Value" or "Footprint"; no other child sets a field.
C8_PropertyKeys ==
    ComponentsBuilt =>
        \A k \in 1..Len(comp_blocks) :
            LET block == NodeAt(s_expr, comp_blocks[k])
            IN /\ components[k].ref = LastProperty(block, "Reference")
               /\ components[k].value = LastProperty(block, "Value")
               /\ components[k].footprint = LastProperty(block, "Footprint")

\* a component was built from a block with two Reference properties of
\* different values, and took the second
C8_Witness ==
    /\ ComponentsBuilt
    /\ \E k \in 1..Len(comp_blocks) :
          LET block == NodeAt(s_expr, comp_blocks[k])
          IN /\ Cardinality(Properties(block, "Reference")) = 2
             /\ \E i, j \in Properties(block, "Reference") :
                   i < j /\ block.c[i].c[3] # block.c[j].c[3]
                         /\ components[k].ref = block.c[j].c[3]

(***************************************************************************)
(* SpecFind: find_all called on every tree of FindTrees with every name of *)
(* FindNames.                                                              *)
(***************************************************************************)
InitFind ==
    /\ file = [kind |-> "text", tree |-> None]
    /\ s_expr \in FindTrees
    /\ pc = "find"
    /\ exc = "none"
    /\ title = None
    /\ comp_blocks = <<>>
    /\ components = <<>>
    /\ net_blocks = <<>>
    /\ nets = <<>>
    /\ loop_i = 0
    /\ result = NoResult
    /\ fsym = ""
    /\ found = <<>>
    /\ chat = ChatIdle

\* lines 17-25: one call find_all(symbol, s_expr)
FindAllCall ==
    /\ pc \in {"find", "found"}
    /\ \E symbol \in FindNames :
          /\ fsym' = symbol
          /\ found' = find_all(symbol, s_expr)
    /\ pc' = "found"
    /\ UNCHANGED <<file, s_expr, exc, title, comp_blocks, components, net_blocks,
                   nets, loop_i, result, chat>>

NextFind == FindAllCall

SpecFind == InitFind /\ [][NextFind]_vars

(***************************************************************************)
(* C1                                                                      *)
(***************************************************************************)
\* C1: find_all(symbol, tree) returns exactly the lists of the tree, the root
\* included, whose first child is the Symbol of that name, each once, in
\* document order (a match before the matches inside it); without a match it
\* returns the empty sequence.
C1_FindAllPreorder ==
    pc = "found" =>
        /\ Range(found) = HeadedBy(s_expr, fsym)
        /\ Len(found) = Cardinality(HeadedBy(s_expr, fsym))
        /\ InDocumentOrder(found)
        /\ (HeadedBy(s_expr, fsym) = {} => found = <<>>)

\* the root matched, a list inside it matched and a list inside that one too
C1_Witness ==
    /\ pc = "found"
    /\ Len(found) >= 3
    /\ found[1] = <<>>
    /\ \E i, j \in 1..Len(found) :
          i < j /\ found[i] # <<>> /\ IsProperPrefix(found[i], found[j])

(***************************************************************************)
(* The /chat handler, lines 130-228, in steps.  chat is the state of one   *)
(* request:                                                                *)
(*   pc           the handler's position                                   *)
(*   body         "json" when request.get_json() gives an object           *)
(*   question, file_path, github_url   whether the field is present        *)
(*   temp_file    whether the local temp_file is set (not None)            *)
(*   created      whether the request created a temporary file             *)
(*   on_disk      whether that file exists                                 *)
(*   tool_calls   the function names of the first response's tool calls    *)
(*   i            the tool call the loop is at                             *)
(*   json_bound   whether line 179 (import json) has run                   *)
(*   invocations  how often parse_kicad_schematic_tool was called          *)
(*   status       the HTTP status of the response, 0 before it             *)
(***************************************************************************)
ToolNames == {"parse_kicad_schematic", "other"}

Requests ==
    [ pc : {"recv"}, body : {"json", "none"},
      question : BOOLEAN, file_path : BOOLEAN, github_url : BOOLEAN,
      temp_file : {FALSE}, created : {FALSE}, on_disk : {FALSE},
      tool_calls : {<<>>}, i : {0}, json_bound : {FALSE},
      invocations : {0}, status : {0} ]

InitChat ==
    /\ file = [kind |-> "text", tree |-> None]
    /\ s_expr = None
    /\ pc = "idle"
    /\ exc = "none"
    /\ title = None
    /\ comp_blocks = <<>>
    /\ components = <<>>
    /\ net_blocks = <<>>
    /\ nets = <<>>
    /\ loop_i = 0
    /\ result = NoResult
    /\ fsym = ""
    /\ found = <<>>
    /\ chat \in {r \in Requests : r.body = "json" \/ ~(r.question \/ r.file_path \/ r.github_url)}

\* lines 225-228: except Exception: the 500 response, and nothing else
raise_in_chat(c) == [c EXCEPT !.pc = "responded", !.status = 500]

\* lines 142, 151: the 400 response
reject(c) == [c EXCEPT !.pc = "responded", !.status = 400]

\* lines 132-145: the request is read and validated
ChatReceive ==
    /\ chat.pc = "recv"
    /\ chat' =
          IF chat.body = "none" THEN raise_in_chat(chat)
          ELSE IF ~chat.question \/ (~chat.file_path /\ ~chat.github_url)
          THEN reject(chat)
          ELSE IF chat.github_url /\ ~chat.file_path
          THEN [chat EXCEPT !.pc = "download"]
          ELSE [chat EXCEPT !.pc = "model"]
    /\ UNCHANGED <<coreVars, findVars>>

\* lines 146-156: requests.get raises, answers another status than 200, or
\* answers 200 and the content is written to a new temporary file
ChatDownload ==
    /\ chat.pc = "download"
    /\ \E outcome \in {"raises", "not_200", "ok"} :
          chat' =
             IF outcome = "raises" THEN raise_in_chat(chat)
             ELSE IF outcome = "not_200" THEN reject(chat)
             ELSE [chat EXCEPT !.pc = "model", !.temp_file = TRUE,
                               !.created = TRUE, !.on_disk = TRUE]
    /\ UNCHANGED <<coreVars, findVars>>

\* lines 158-172: the first completion raises or answers with tool calls
\* (none, one or several)
ChatCallModel ==
    /\ chat.pc = "model"
    /\ \/ chat' = raise_in_chat(chat)
       \/ \E calls \in SeqUpTo(ToolNames, MaxToolCalls) :
             chat' = [chat EXCEPT !.tool_calls = calls, !.i = 1,
                                  !.pc = IF calls # <<>> THEN "loop" ELSE "cleanup"]
    /\ UNCHANGED <<coreVars, findVars>>

\* lines 173-175: the loop takes the next tool call and looks at its name
ChatLoop ==
    /\ chat.pc = "loop"
    /\ chat' =
          IF chat.i > Len(chat.tool_calls) THEN [chat EXCEPT !.pc = "cleanup"]
          ELSE IF chat.tool_calls[chat.i] = "parse_kicad_schematic"
          THEN [chat EXCEPT !.pc = "tool"]
          ELSE [chat EXCEPT !.i = chat.i + 1]
    /\ UNCHANGED <<coreVars, findVars>>

\* lines 176-182: the arguments are decoded and parse_kicad_schematic_tool is
\* called; the tool itself never raises (line 126)
ChatTool ==
    /\ chat.pc = "tool"
    /\ \E args \in {"json_object", "not_json", "no_file_path", "dict"} :
          chat' =
             IF args \in {"not_json", "no_file_path"} THEN raise_in_chat(chat)
             ELSE [chat EXCEPT !.pc = "followup",
                               !.json_bound = (args = "json_object"),
                               !.invocations = chat.invocations + 1]
    /\ UNCHANGED <<coreVars, findVars>>

\* a mutant: the loop goes on to the next tool call after the follow-up
after_followup_continue(c) == [c EXCEPT !.pc = "loop", !.i = c.i + 1]

\* lines 206-215: the answer is taken and the handler returns from inside the loop
after_followup(c) == [c EXCEPT !.pc = "cleanup"]

\* lines 183-207: json.dumps of the tool's result (it raises when json was
\* never imported or the result holds a value json cannot encode), then the
\* follow-up completion, which may raise
ChatFollowup ==
    /\ chat.pc = "followup"
    /\ \/ chat' = raise_in_chat(chat)
       \/ chat.json_bound /\ chat' = after_followup(chat)
    /\ UNCHANGED <<coreVars, findVars>>

\* lines 208-215 and 216-224: os.remove(temp_file), whose failure is caught,
\* then the answer
ChatCleanup ==
    /\ chat.pc = "cleanup"
    /\ \E removed \in BOOLEAN :
          chat' = [chat EXCEPT !.pc = "responded", !.status = 200,
                               !.on_disk = IF chat.temp_file /\ removed
                                           THEN FALSE ELSE chat.on_disk]
    /\ UNCHANGED <<coreVars, findVars>>

NextChat ==
    \/ ChatReceive
    \/ ChatDownload
    \/ ChatCallModel
    \/ ChatLoop
    \/ ChatTool
    \/ ChatFollowup
    \/ ChatCleanup

SpecChat == InitChat /\ [][NextChat]_vars

(***************************************************************************)
(* C9                                                                      *)
(***************************************************************************)
\* the request was answered: it passed validation and got an answer
Answered == chat.pc = "responded" /\ chat.status = 200

\* C9 as claimed: an answered request has called parse_kicad_schematic_tool
\* exactly once, whatever the first response held.
C9_ExactlyOnce == Answered => chat.invocations = 1

\* C9 as amended: an answered request has called the tool at most once:
\* once when the first response holds a tool call named
\* parse_kicad_schematic, and not at all when it holds none.
C9_AtMostOnce ==
    Answered =>
        /\ chat.invocations <= 1
        /\ chat.invocations = 1
              <=> \E k \in 1..Len(chat.tool_calls) :
                     chat.tool_calls[k] = "parse_kicad_schematic"

\* a request was answered whose first response held two calls of
\* parse_kicad_schematic
C9_Witness ==
    /\ Answered
    /\ chat.invocations = 1
    /\ chat.tool_calls = <<"parse_kicad_schematic", "parse_kicad_schematic">>

(***************************************************************************)
(* C10                                                                     *)
(***************************************************************************)
\* C10: when the handler has responded, on whatever path, the temporary
\* file it created for the download is gone.
C10_TempFileRemoved ==
    (chat.pc = "responded" /\ chat.created) => ~chat.on_disk

====
